---- MODULE Spec2Model ----
(***************************************************************************)
(* dedup-rs (src/src/main.rs): the staged duplicate finder.                *)
(*                                                                         *)
(*   group_by_size -> filter_by_partial_hash -> confirm_with_full_hash     *)
(*   -> metrics -> output                                                  *)
(*                                                                         *)
(* One behaviour of Spec is one run of main over one directory.  The       *)
(* directory is part of the state: other processes may revoke a file's     *)
(* read permission (chmod) or delete a file (unlink) while the run is in   *)
(* progress.  Such a change is applied when the run next touches the file, *)
(* which is when it can first make a difference.  File contents are never  *)
(* rewritten.                                                              *)
(*                                                                         *)
(* A byte string is kept sparsely as [len, ones]: len bytes, byte 1 at the *)
(* positions in ones and byte 0 elsewhere, so that PARTIAL_HASH_SIZE keeps *)
(* its real value.  A BLAKE3 digest is modelled as the byte stream that    *)
(* was fed to the hasher (the hash is taken to be collision-free).  Sizes  *)
(* and counters stay far below 2^64, so u64 arithmetic is exact.           *)
(***************************************************************************)
EXTENDS Integers, Sequences, FiniteSets, TLC

VARIABLES
    fs,                   \* path -> [data, hidden, state]: the directory
    rootOk,               \* the root path exists and can be traversed
    modified,             \* the directory changed after the run started
    faults,               \* number of changes made by other processes
    pc,                   \* position of main
    pending,              \* work items the parallel workers still hold
    found,                \* (size, path) records produced by scan workers
    size_groups,          \* main: size_groups (HashMap<u64, Vec<PathBuf>>)
    potential_duplicates, \* main: potential_duplicates
    cursor,               \* filter_by_partial_hash: next path per size group
    v,                    \* filter_by_partial_hash: per-group (hash, path) pairs
    partial_hash_groups,  \* main: partial_hash_groups
    all_paths,            \* confirm_with_full_hash: all_paths
    hashed,               \* confirm_with_full_hash: index -> hash result
    full_hash_groups,     \* confirm_with_full_hash: full_hash_groups
    duplicate_groups,     \* main: duplicate_groups (Vec<Vec<PathBuf>>)
    failed,               \* paths whose hash computation returned Err
    metrics,              \* struct Metrics (counters only)
    outcome,              \* what main returned: "running", "ok", "err"
    probe                 \* one stepwise call of calculate_partial_hash

vars == <<fs, rootOk, modified, faults, pc, pending, found, size_groups,
          potential_duplicates, cursor, v, partial_hash_groups, all_paths,
          hashed, full_hash_groups, duplicate_groups, failed, metrics,
          outcome, probe>>

(***************************************************************************)
(* Program constants and bounds                                            *)
(***************************************************************************)
PARTIAL_HASH_SIZE == 4096

BUFFER_SIZE == 65536

MaxFaults == 1

MaxProbeLen == 9000

\* The directory holds four files.
Paths == {1, 2, 3, 4}

(***************************************************************************)
(* Byte strings                                                            *)
(***************************************************************************)
Min(a, b) == IF a < b THEN a ELSE b

saturating_sub(a, b) == IF a > b THEN a - b ELSE 0

Bytes(n, ones) == [len |-> n, ones |-> ones]

NoBytes == Bytes(0, {})

Slice(c, from, n) ==
    Bytes(n, {q - from : q \in {r \in c.ones : r >= from /\ r < from + n}})

Concat(a, b) == Bytes(a.len + b.len, a.ones \cup {q + a.len : q \in b.ones})

\* Read::read on a regular file positioned at pos with a buffer of n bytes:
\* the bytes that are there, at most n of them.
ReadAt(c, pos, n) == Slice(c, pos, Min(n, saturating_sub(c.len, pos)))

Ok(x) == [ok |-> TRUE, val |-> x]

Err == [ok |-> FALSE, val |-> NoBytes]

(***************************************************************************)
(* The directory                                                           *)
(***************************************************************************)
\* The contents and names a file may have. hidden: the name starts with '.'.
FileKinds ==
    << [data |-> Bytes(0, {}),         hidden |-> FALSE],
       [data |-> Bytes(5, {}),         hidden |-> FALSE],
       [data |-> Bytes(5, {}),         hidden |-> TRUE],
       [data |-> Bytes(5, {0}),        hidden |-> FALSE],
       [data |-> Bytes(10000, {}),     hidden |-> FALSE],
       [data |-> Bytes(10000, {5000}), hidden |-> FALSE],
       [data |-> Bytes(70000, {}),     hidden |-> FALSE] >>

MkFile(k) == [data |-> FileKinds[k].data, hidden |-> FileKinds[k].hidden,
              state |-> "ok"]

\* Paths are interchangeable, so directories are listed up to renaming.
Directories ==
    {[p \in Paths |-> MkFile(ix[p])] :
        ix \in {f \in [Paths -> 1..Len(FileKinds)] :
                   \A p \in Paths, q \in Paths : p <= q => f[p] <= f[q]}}

\* std::fs::metadata / DirEntry::metadata
metadata(f) == IF f.state = "gone" THEN Err ELSE Ok(f.data.len)

\* File::open followed by reads
Readable(f) == f.state = "ok"

(***************************************************************************)
(* Hashing                                                                 *)
(***************************************************************************)
\* Variant: the tail length as if the head had read nothing.
tail_size_whole_window(len, head_read) == Min(PARTIAL_HASH_SIZE, len)

\* PARTIAL_HASH_SIZE.min((len as usize).saturating_sub(head_read))
tail_size(len, head_read) ==
    Min(PARTIAL_HASH_SIZE, saturating_sub(len, head_read))

read_head(data) == ReadAt(data, 0, PARTIAL_HASH_SIZE)

read_tail(data, head_read) ==
    IF data.len > head_read
    THEN LET ts == tail_size(data.len, head_read)
         IN  ReadAt(data, data.len - ts, ts)
    ELSE NoBytes

calculate_partial_hash(f) ==
    IF ~Readable(f) THEN Err
    ELSE LET head_buf == read_head(f.data)
             tail_buf == read_tail(f.data, head_buf.len)
         IN  Ok(Concat(head_buf, tail_buf))

RECURSIVE ReadLoop(_, _, _)
ReadLoop(data, pos, acc) ==
    LET chunk == ReadAt(data, pos, BUFFER_SIZE)
    IN  IF chunk.len = 0 THEN acc
        ELSE ReadLoop(data, pos + chunk.len, Concat(acc, chunk))

\* Variant: the full hash taken over the head/tail sample only.
calculate_full_hash_sampled(f) == calculate_partial_hash(f)

\* Variant: the full hash taken over the first window only.
calculate_full_hash_head_only(f) ==
    IF ~Readable(f) THEN Err ELSE Ok(read_head(f.data))

\* loop { read up to 64 KB; stop at 0; hasher.update(..) }
calculate_full_hash(f) ==
    IF ~Readable(f) THEN Err ELSE Ok(ReadLoop(f.data, 0, NoBytes))

(***************************************************************************)
(* Grouping                                                                *)
(***************************************************************************)
EmptyMap == [k \in {} |-> <<>>]

\* Every order in which the elements of S can be collected.
Perms(S) ==
    {s \in [1..Cardinality(S) -> S] :
        \A i \in DOMAIN s, j \in DOMAIN s : s[i] = s[j] => i = j}

RECURSIVE Flatten(_)
Flatten(ss) == IF ss = <<>> THEN <<>> ELSE Head(ss) \o Flatten(Tail(ss))

\* HashMap values()/into_values(): the values in the map's iteration order.
ValuesIn(m, order) == [i \in DOMAIN order |-> m[order[i]]]

\* map.entry(key).or_default().push(path)
Insert(m, key, path) ==
    IF key \in DOMAIN m THEN [m EXCEPT ![key] = Append(@, path)]
    ELSE m @@ (key :> <<path>>)

RECURSIVE FoldFrom(_, _)
FoldFrom(pairs, m) ==
    IF pairs = <<>> THEN m
    ELSE FoldFrom(Tail(pairs), Insert(m, Head(pairs)[1], Head(pairs)[2]))

\* Variant: a grouping that only joins neighbouring pairs: the group of a key is the
\* run of pairs that ends at the key's last occurrence.
FoldPairsAdjacent(pairs) ==
    LET keys == {pairs[i][1] : i \in DOMAIN pairs}
        last(k) == CHOOSE i \in DOMAIN pairs :
                      pairs[i][1] = k /\ \A j \in DOMAIN pairs : pairs[j][1] = k => j <= i
        first(k) == CHOOSE i \in 1..last(k) :
                       /\ \A j \in i..last(k) : pairs[j][1] = k
                       /\ \A h \in 1..last(k) :
                             (\A j \in h..last(k) : pairs[j][1] = k) => i <= h
    IN  [k \in keys |-> [i \in 1..(last(k) - first(k) + 1) |-> pairs[first(k) + i - 1][2]]]

\* for (key, path) in pairs { map.entry(key).or_default().push(path) }
FoldPairs(pairs) == FoldFrom(pairs, EmptyMap)

Restrict(m, keys) == [k \in keys |-> m[k]]

PotentialDuplicates(m) == Restrict(m, {k \in DOMAIN m : Len(m[k]) > 1})

\* Variant: the retain left out.
RetainAll(m) == m

\* hash_groups.retain(|_, v| v.len() > 1)
RetainMultiple(m) == Restrict(m, {k \in DOMAIN m : Len(m[k]) > 1})

MultipleKeys(m) == {k \in DOMAIN m : Len(m[k]) > 1}

Range(s) == {s[i] : i \in DOMAIN s}

PathsOf(m) == UNION {Range(m[k]) : k \in DOMAIN m}

RECURSIVE SumOver(_, _)
SumOver(S, f) ==
    IF S = {} THEN 0
    ELSE LET x == CHOOSE y \in S : TRUE IN f[x] + SumOver(S \ {x}, f)

CountPaths(m) == SumOver(DOMAIN m, [k \in DOMAIN m |-> Len(m[k])])

(***************************************************************************)
(* Other processes                                                         *)
(***************************************************************************)
\* The states a file in state s may be found in later: chmod 000 makes it
\* "denied" (metadata can be read, open fails), unlink makes it "gone".
Later(s) ==
    CASE s = "ok" -> {"ok", "denied", "gone"}
      [] s = "denied" -> {"denied", "gone"}
      [] OTHER -> {"gone"}

Changes(from, to) == IF from = to THEN 0 ELSE 1

\* The paths whose metadata the run has read, and those it has opened.
Statted == {e[2] : e \in found}

Opened == UNION {{e[2] : e \in Range(v[k])} : k \in DOMAIN v}

\* The run finds file p in state st.  The change counts as a modification
\* of the directory once it contradicts what the run has already read.
Finds(p, st) ==
    /\ st \in Later(fs[p].state)
    /\ faults + Changes(fs[p].state, st) <= MaxFaults
    /\ fs' = [fs EXCEPT ![p].state = st]
    /\ faults' = faults + Changes(fs[p].state, st)
    /\ modified' = \/ modified
                   \/ st # fs[p].state /\ st = "gone" /\ p \in Statted
                   \/ st # fs[p].state /\ st = "denied" /\ p \in Opened

FileStates == {"ok", "denied", "gone"}

(***************************************************************************)
(* Stage 1: group_by_size                                                  *)
(***************************************************************************)
\* WalkDir::new(path).into_iter() ... .filter_map(|e| e.ok())
\*     .filter(|e| e.file_type().is_file())
\* jwalk's WalkDir::new leaves skip_hidden at its default (true): entries
\* whose name starts with '.' are not yielded.  A root that cannot be read
\* yields only an Err entry, which filter_map(|e| e.ok()) drops.
WalkDir(dir, root_ok) ==
    IF root_ok
    THEN {p \in DOMAIN dir : ~dir[p].hidden /\ dir[p].state # "gone"}
    ELSE {}

\* Variant: the size test left out.
ScanResultAnySize(f, p) ==
    LET meta_res == metadata(f)
    IN  IF meta_res.ok THEN {<<meta_res.val, p>>} ELSE {}

\* the closure of the last filter_map: Ok(md) if md.len() > 0 => Some(..)
ScanResult(f, p) ==
    LET meta_res == metadata(f)
    IN  IF meta_res.ok /\ meta_res.val > 0 THEN {<<meta_res.val, p>>} ELSE {}

\* usize::min(*sz as usize, 2 * PARTIAL_HASH_SIZE)
per_file(sz) == Min(sz, 2 * PARTIAL_HASH_SIZE)

ZeroMetrics ==
    [total_files |-> 0, total_bytes |-> 0, candidate_groups |-> 0,
     partial_groups |-> 0, duplicate_groups |-> 0, duplicate_files |-> 0,
     reclaimable_bytes |-> 0, bytes_hashed_partial |-> 0,
     bytes_hashed_full |-> 0]

IdleProbe ==
    [pc |-> "idle", len |-> 0, head_read |-> 0, tail_from |-> 0,
     tail_read |-> 0, fed |-> 0]

Init ==
    /\ rootOk \in BOOLEAN
    /\ fs \in IF rootOk THEN Directories
              ELSE {[p \in Paths |-> [MkFile(1) EXCEPT !.state = "gone"]]}
    /\ modified = FALSE
    /\ faults = 0
    /\ pc = "start"
    /\ pending = {}
    /\ found = {}
    /\ size_groups = EmptyMap
    /\ potential_duplicates = EmptyMap
    /\ cursor = EmptyMap
    /\ v = EmptyMap
    /\ partial_hash_groups = EmptyMap
    /\ all_paths = <<>>
    /\ hashed = EmptyMap
    /\ full_hash_groups = EmptyMap
    /\ duplicate_groups = <<>>
    /\ failed = {}
    /\ metrics = ZeroMetrics
    /\ outcome = "running"
    /\ probe = IdleProbe

\* main calls group_by_size: the walker lists the tree.
Start ==
    /\ pc = "start"
    /\ pc' = "scan"
    /\ pending' = WalkDir(fs, rootOk)
    /\ UNCHANGED <<fs, rootOk, modified, faults, found, size_groups,
                   potential_duplicates, cursor, v, partial_hash_groups,
                   all_paths, hashed, full_hash_groups, duplicate_groups,
                   failed, metrics, outcome, probe>>

\* One par_bridge worker takes one entry and reads its metadata.
ScanEntry(p, st) ==
    /\ pc = "scan"
    /\ p \in pending
    /\ Finds(p, st)
    /\ pending' = pending \ {p}
    /\ found' = found \cup ScanResult(fs'[p], p)
    /\ UNCHANGED <<rootOk, pc, size_groups,
                   potential_duplicates, cursor, v, partial_hash_groups,
                   all_paths, hashed, full_hash_groups, duplicate_groups,
                   failed, metrics, outcome, probe>>

\* collect() (in the order the workers finished), the size_map fold, and
\* main up to the call of filter_by_partial_hash.
GroupBySize ==
    /\ pc = "scan"
    /\ pending = {}
    /\ \E entries \in Perms(found) :
          LET size_map == FoldPairs(entries)
              pd == PotentialDuplicates(size_map)
          IN  /\ size_groups' = size_map
              /\ potential_duplicates' = pd
              /\ cursor' = [k \in DOMAIN pd |-> 1]
              /\ v' = [k \in DOMAIN pd |-> <<>>]
              /\ metrics' =
                    [metrics EXCEPT
                       !.total_files = CountPaths(size_map),
                       !.total_bytes =
                           SumOver(DOMAIN size_map,
                                   [k \in DOMAIN size_map |-> k * Len(size_map[k])]),
                       !.candidate_groups = Cardinality(DOMAIN pd),
                       !.bytes_hashed_partial =
                           SumOver(DOMAIN pd,
                                   [k \in DOMAIN pd |-> per_file(k) * Len(pd[k])])]
    /\ pc' = "partial"
    /\ UNCHANGED <<fs, rootOk, modified, faults, pending, found,
                   partial_hash_groups, all_paths, hashed, full_hash_groups,
                   duplicate_groups, failed, outcome, probe>>

(***************************************************************************)
(* Stage 2: filter_by_partial_hash                                         *)
(***************************************************************************)
\* Variant: a failure discards what the task had collected so far.
PushIfOkElseClear(vec, r, path) ==
    IF r.ok THEN Append(vec, <<r.val, path>>) ELSE <<>>

\* if let Ok(hash) = ... { v.push((hash, path)); }   and
\* match ... { Ok(h) => Some((h, path)), Err(_) => None }
PushIfOk(vec, r, path) ==
    IF r.ok THEN Append(vec, <<r.val, path>>) ELSE vec

\* One flat_map task hashes the next path of its size group.
PartialHashFile(k, st) ==
    /\ pc = "partial"
    /\ k \in DOMAIN potential_duplicates
    /\ cursor[k] <= Len(potential_duplicates[k])
    /\ LET path == potential_duplicates[k][cursor[k]]
           r == calculate_partial_hash(fs'[path])
       IN  /\ Finds(path, st)
           /\ v' = [v EXCEPT ![k] = PushIfOk(@, r, path)]
           /\ failed' = IF r.ok THEN failed ELSE failed \cup {path}
    /\ cursor' = [cursor EXCEPT ![k] = @ + 1]
    /\ UNCHANGED <<rootOk, pc, pending, found,
                   size_groups, potential_duplicates, partial_hash_groups,
                   all_paths, hashed, full_hash_groups, duplicate_groups,
                   metrics, outcome, probe>>

\* bytes_hashed_full: the sizes of the paths whose metadata can be read
BytesHashedFull(m, dir) ==
    LET ps == PathsOf(m)
    IN  SumOver(ps, [p \in ps |-> IF metadata(dir[p]).ok
                                  THEN metadata(dir[p]).val ELSE 0])

\* collect(), the hash_groups fold and retain; main up to the parallel
\* phase of confirm_with_full_hash (all_paths is flattened).
FilterByPartialHash ==
    /\ pc = "partial"
    /\ \A k \in DOMAIN potential_duplicates :
          cursor[k] > Len(potential_duplicates[k])
    /\ \E order \in Perms(DOMAIN v) :
          LET pairs == Flatten(ValuesIn(v, order))
              hash_groups == RetainMultiple(FoldPairs(pairs))
          IN  /\ partial_hash_groups' = hash_groups
              /\ metrics' =
                    [metrics EXCEPT
                       !.partial_groups = Cardinality(DOMAIN hash_groups),
                       !.bytes_hashed_full = BytesHashedFull(hash_groups, fs)]
              /\ \E into_values \in Perms(DOMAIN hash_groups) :
                    /\ all_paths' = Flatten(ValuesIn(hash_groups, into_values))
                    /\ pending' = 1..Len(all_paths')
    /\ hashed' = EmptyMap
    /\ pc' = "full"
    /\ UNCHANGED <<fs, rootOk, modified, faults, found, size_groups,
                   potential_duplicates, cursor, v, full_hash_groups,
                   duplicate_groups, failed, outcome, probe>>

(***************************************************************************)
(* Stage 3: confirm_with_full_hash                                         *)
(***************************************************************************)
\* One into_par_iter worker hashes one path of all_paths.
FullHashFile(i, st) ==
    /\ pc = "full"
    /\ i \in pending
    /\ pending' = pending \ {i}
    /\ LET r == calculate_full_hash(fs'[all_paths[i]])
       IN  /\ Finds(all_paths[i], st)
           /\ hashed' = hashed @@ (i :> r)
           /\ failed' = IF r.ok THEN failed ELSE failed \cup {all_paths[i]}
    /\ UNCHANGED <<rootOk, pc, found, size_groups,
                   potential_duplicates, cursor, v, partial_hash_groups,
                   all_paths, full_hash_groups, duplicate_groups, metrics,
                   outcome, probe>>

\* filter_map(..).collect() keeps the order of all_paths
RECURSIVE CollectFrom(_, _, _)
CollectFrom(paths, results, i) ==
    IF i > Len(paths) THEN <<>>
    ELSE PushIfOk(<<>>, results[i], paths[i]) \o CollectFrom(paths, results, i + 1)

\* collect(), the full_hash_groups fold, and the filter on v.len() > 1.
ConfirmWithFullHash ==
    /\ pc = "full"
    /\ pending = {}
    /\ LET pairs == CollectFrom(all_paths, hashed, 1)
           groups == FoldPairs(pairs)
       IN  /\ full_hash_groups' = groups
           /\ \E into_values \in Perms(MultipleKeys(groups)) :
                 duplicate_groups' = ValuesIn(groups, into_values)
    /\ pc' = "metrics"
    /\ UNCHANGED <<fs, rootOk, modified, faults, pending, found, size_groups,
                   potential_duplicates, cursor, v, partial_hash_groups,
                   all_paths, hashed, failed, metrics, outcome, probe>>

(***************************************************************************)
(* Metrics and output                                                      *)
(***************************************************************************)
\* the closure of reclaimable_bytes: the size of g[0] as metadata reports
\* it now (0 when it cannot be read) times g.len() - 1
Reclaimable(g, dir) ==
    IF g = <<>> THEN 0
    ELSE LET md == metadata(dir[g[1]])
             size == IF md.ok THEN md.val ELSE 0
         IN  size * saturating_sub(Len(g), 1)

BuildMetrics(unlinked) ==
    /\ pc = "metrics"
    /\ unlinked \subseteq {duplicate_groups[i][1] : i \in DOMAIN duplicate_groups}
    /\ \A p \in unlinked : fs[p].state # "gone"
    /\ faults + Cardinality(unlinked) <= MaxFaults
    /\ fs' = [p \in Paths |-> IF p \in unlinked
                               THEN [fs[p] EXCEPT !.state = "gone"] ELSE fs[p]]
    /\ faults' = faults + Cardinality(unlinked)
    /\ modified' = (modified \/ unlinked # {})
    /\ metrics' =
          [metrics EXCEPT
             !.duplicate_groups = Len(duplicate_groups),
             !.duplicate_files =
                 SumOver(DOMAIN duplicate_groups,
                         [i \in DOMAIN duplicate_groups |-> Len(duplicate_groups[i])]),
             !.reclaimable_bytes =
                 SumOver(DOMAIN duplicate_groups,
                         [i \in DOMAIN duplicate_groups |->
                             Reclaimable(duplicate_groups[i], fs')])]
    /\ pc' = "render"
    /\ UNCHANGED <<rootOk, pending, found, size_groups,
                   potential_duplicates, cursor, v, partial_hash_groups,
                   all_paths, hashed, full_hash_groups, duplicate_groups,
                   failed, outcome, probe>>

\* write_output(..)? / print_output(..)?; Ok(())
Render ==
    /\ pc = "render"
    /\ \E written \in BOOLEAN : outcome' = IF written THEN "ok" ELSE "err"
    /\ pc' = "done"
    /\ UNCHANGED <<fs, rootOk, modified, faults, pending, found, size_groups,
                   potential_duplicates, cursor, v, partial_hash_groups,
                   all_paths, hashed, full_hash_groups, duplicate_groups,
                   failed, metrics, probe>>

Next ==
    \/ Start
    \/ \E p \in Paths, st \in FileStates : ScanEntry(p, st)
    \/ GroupBySize
    \/ \E k \in DOMAIN potential_duplicates, st \in FileStates :
          PartialHashFile(k, st)
    \/ FilterByPartialHash
    \/ \E i \in pending, st \in FileStates : FullHashFile(i, st)
    \/ ConfirmWithFullHash
    \/ \E unlinked \in SUBSET Paths : BuildMetrics(unlinked)
    \/ Render

Spec == Init /\ [][Next]_vars

(***************************************************************************)
(* calculate_partial_hash, one call step by step, for every file length    *)
(***************************************************************************)
ProbeData == Bytes(probe.len, {})

InitHash ==
    /\ rootOk = FALSE
    /\ fs = [p \in Paths |-> [MkFile(1) EXCEPT !.state = "gone"]]
    /\ modified = FALSE
    /\ faults = 0
    /\ pc = "probe"
    /\ pending = {}
    /\ found = {}
    /\ size_groups = EmptyMap
    /\ potential_duplicates = EmptyMap
    /\ cursor = EmptyMap
    /\ v = EmptyMap
    /\ partial_hash_groups = EmptyMap
    /\ all_paths = <<>>
    /\ hashed = EmptyMap
    /\ full_hash_groups = EmptyMap
    /\ duplicate_groups = <<>>
    /\ failed = {}
    /\ metrics = ZeroMetrics
    /\ outcome = "running"
    /\ \E n \in 1..MaxProbeLen : probe = [IdleProbe EXCEPT !.pc = "open", !.len = n]

ProbeUnchanged ==
    UNCHANGED <<fs, rootOk, modified, faults, pc, pending, found, size_groups,
                potential_duplicates, cursor, v, partial_hash_groups,
                all_paths, hashed, full_hash_groups, duplicate_groups,
                failed, metrics, outcome>>

\* head_read = reader.read(&mut head_buf)?
ProbeHead ==
    /\ probe.pc = "open"
    /\ probe' = [probe EXCEPT !.pc = "head",
                              !.head_read = read_head(ProbeData).len]
    /\ ProbeUnchanged

\* if len as usize > head_read { seek(SeekFrom::End(-tail_size)); read }
ProbeTail ==
    /\ probe.pc = "head"
    /\ probe.len > probe.head_read
    /\ LET ts == tail_size(probe.len, probe.head_read)
       IN  probe' = [probe EXCEPT
                       !.pc = "tail",
                       !.tail_from = probe.len - ts,
                       !.tail_read = ReadAt(ProbeData, probe.len - ts, ts).len]
    /\ ProbeUnchanged

ProbeNoTail ==
    /\ probe.pc = "head"
    /\ ~(probe.len > probe.head_read)
    /\ probe' = [probe EXCEPT !.pc = "tail", !.tail_from = probe.len,
                              !.tail_read = 0]
    /\ ProbeUnchanged

\* hasher.update(&head_buf); hasher.update(&tail_buf)
ProbeDigest ==
    /\ probe.pc = "tail"
    /\ probe' = [probe EXCEPT
                   !.pc = "done",
                   !.fed = calculate_partial_hash(
                              [data |-> ProbeData, hidden |-> FALSE,
                               state |-> "ok"]).val.len]
    /\ ProbeUnchanged

NextHash == ProbeHead \/ ProbeTail \/ ProbeNoTail \/ ProbeDigest

SpecHash == InitHash /\ [][NextHash]_vars

(***************************************************************************)
(* Properties                                                              *)
(***************************************************************************)
GroupsFinal == pc \in {"metrics", "render", "done"}

MetricsBuilt == pc \in {"render", "done"}

GroupSets == {Range(duplicate_groups[i]) : i \in DOMAIN duplicate_groups}

SameGroup(p, q) == \E g \in GroupSets : p \in g /\ q \in g

KeysOf(m, p) == {k \in DOMAIN m : p \in Range(m[k])}

\* The sets of two or more files of S with the same content.
IdenticalSets(S) ==
    {c \in {{q \in S : fs[q].data = fs[p].data} : p \in S} : Cardinality(c) > 1}

\* C1: two files with identical content and size > 0 that stay readable and
\* unmodified during the run are in the same final duplicate group, whatever
\* their names.
NoFalseNegatives ==
    GroupsFinal =>
        \A p \in Paths, q \in Paths :
            ( /\ p # q
              /\ fs[p].data = fs[q].data
              /\ fs[p].data.len > 0
              /\ fs[p].state = "ok"
              /\ fs[q].state = "ok" ) => SameGroup(p, q)

\* The same for files whose names do not start with '.'.
NoFalseNegativesVisible ==
    GroupsFinal =>
        \A p \in Paths, q \in Paths :
            ( /\ p # q
              /\ fs[p].data = fs[q].data
              /\ fs[p].data.len > 0
              /\ ~fs[p].hidden /\ ~fs[q].hidden
              /\ fs[p].state = "ok"
              /\ fs[q].state = "ok" ) => SameGroup(p, q)

\* C2: two files with distinct content are never in the same final duplicate
\* group, even when their sizes and their head/tail samples coincide.
NoFalsePositives ==
    GroupsFinal =>
        \A g \in GroupSets : \A p \in g, q \in g : fs[p].data = fs[q].data

\* C2 witness: two 10000-byte files that differ only in the middle share a
\* partial group (partial_groups = 1) and the run ends with no duplicate group.
SampleCollisionRejected ==
    /\ pc = "done"
    /\ metrics.partial_groups = 1
    /\ metrics.duplicate_groups = 0
    /\ \E k \in DOMAIN partial_hash_groups :
          \E p \in Range(partial_hash_groups[k]), q \in Range(partial_hash_groups[k]) :
              /\ fs[p].data # fs[q].data
              /\ fs[p].data.len = 10000
              /\ fs[q].data.len = 10000
              /\ fs[p].state = "ok" /\ fs[q].state = "ok"

\* C3 as stated: the group counts shrink from stage to stage,
\* duplicate_groups <= partial_groups <= candidate_groups.
GroupCountShrink ==
    MetricsBuilt =>
        /\ metrics.duplicate_groups <= metrics.partial_groups
        /\ metrics.partial_groups <= metrics.candidate_groups

\* C3 amended: the number of files in groups shrinks from stage to stage and
\* every group has at least two members, so twice the group count of a stage
\* is at most the number of files of that stage.
MemberCountShrink ==
    MetricsBuilt =>
        /\ 2 * metrics.duplicate_groups <= metrics.duplicate_files
        /\ metrics.duplicate_files <= CountPaths(partial_hash_groups)
        /\ 2 * metrics.partial_groups <= CountPaths(partial_hash_groups)
        /\ CountPaths(partial_hash_groups) <= CountPaths(potential_duplicates)
        /\ 2 * metrics.candidate_groups <= CountPaths(potential_duplicates)
        /\ CountPaths(potential_duplicates) <= metrics.total_files

\* C3 witness: one candidate group splits into two partial groups.
GroupSplit ==
    /\ pc = "done"
    /\ metrics.candidate_groups = 1
    /\ metrics.partial_groups = 2
    /\ metrics.duplicate_groups = 2

\* C4: all members of a final duplicate group were grouped under the same
\* size, the same partial fingerprint and the same full hash.
GroupsHomogeneous ==
    GroupsFinal =>
        \A g \in GroupSets : \A p \in g, q \in g :
            /\ KeysOf(size_groups, p) # {}
            /\ KeysOf(partial_hash_groups, p) # {}
            /\ KeysOf(full_hash_groups, p) # {}
            /\ KeysOf(size_groups, p) = KeysOf(size_groups, q)
            /\ KeysOf(partial_hash_groups, p) = KeysOf(partial_hash_groups, q)
            /\ KeysOf(full_hash_groups, p) = KeysOf(full_hash_groups, q)

\* C4 witness: one partial group holds files of two sizes, all of them are
\* flattened into all_paths, and the full hash regroups them into two groups.
MixedPartialGroupRegrouped ==
    /\ pc = "done"
    /\ Cardinality(DOMAIN partial_hash_groups) = 1
    /\ \E k \in DOMAIN partial_hash_groups :
          \E p \in Range(partial_hash_groups[k]), q \in Range(partial_hash_groups[k]) :
              fs[p].data.len # fs[q].data.len
    /\ Len(duplicate_groups) = 2

AllGroupedPaths ==
    PathsOf(size_groups) \cup PathsOf(potential_duplicates)
        \cup PathsOf(partial_hash_groups) \cup UNION GroupSets

\* C5: a file of size 0 is in no size group, candidate group, partial-hash
\* group or final duplicate group, and no stage holds a path that the stage
\* before it did not hold.
NoEmptyFiles ==
    /\ \A p \in AllGroupedPaths : fs[p].data.len > 0
    /\ UNION GroupSets \subseteq PathsOf(partial_hash_groups)
    /\ Range(all_paths) \subseteq PathsOf(partial_hash_groups)
    /\ PathsOf(partial_hash_groups) \subseteq PathsOf(potential_duplicates)
    /\ PathsOf(potential_duplicates) \subseteq PathsOf(size_groups)
    /\ PathsOf(size_groups) \subseteq WalkDir(fs, rootOk) \cup {p \in Paths : fs[p].state = "gone"}

\* C5 witness: the directory holds several empty files and the run ends
\* with a duplicate group of other files.
EmptyFilesIgnored ==
    /\ pc = "done"
    /\ Cardinality({p \in Paths : fs[p].data.len = 0 /\ fs[p].state = "ok"}) >= 2
    /\ Len(duplicate_groups) = 1

\* C6: a hash failure removes exactly the file it hits: the final groups are
\* those of the scanned files without the failed ones, and the pipeline
\* reaches its end without an error.
HashFailureIsolated ==
    /\ GroupsFinal => GroupSets = IdenticalSets(Statted \ failed)
    /\ pc # "done" => outcome = "running"

\* C6 witness: one file of a duplicate pair cannot be read at the full-hash
\* stage; the pair yields no group and the run completes.
PairLostToFailure ==
    /\ pc = "done"
    /\ outcome = "ok"
    /\ duplicate_groups = <<>>
    /\ \E p \in failed, q \in Statted \ failed :
          /\ fs[p].data = fs[q].data
          /\ p \in PathsOf(partial_hash_groups)
          /\ q \in PathsOf(partial_hash_groups)

\* C7: when the root cannot be traversed the run ends in an error and builds
\* neither duplicate groups nor a metrics record.
RootFailureIsFatal ==
    ~rootOk => /\ ~MetricsBuilt
               /\ pc = "done" => outcome = "err"

\* C8: over a directory that is not modified during the run, every order in
\* which the workers produce and collect their results ends with the same
\* duplicate groups, as sets of paths: those the directory determines.
OrderIndependent ==
    (GroupsFinal /\ ~modified) =>
        GroupSets = IdenticalSets({p \in Paths : /\ rootOk
                                                 /\ ~fs[p].hidden
                                                 /\ fs[p].state = "ok"
                                                 /\ fs[p].data.len > 0})

\* C8 witness: a run over an unmodified directory in which the workers
\* finished out of path order, so that a group lists its members reversed.
CollectedOutOfOrder ==
    /\ pc = "done"
    /\ ~modified
    /\ \E i \in DOMAIN duplicate_groups :
          /\ Len(duplicate_groups[i]) = 3
          /\ duplicate_groups[i][1] > duplicate_groups[i][2]
          /\ duplicate_groups[i][2] > duplicate_groups[i][3]

\* C9: reclaimable_bytes is the sum over the final groups of s * (n - 1), for
\* a group of n files of size s each.
ReclaimableExact ==
    MetricsBuilt =>
        metrics.reclaimable_bytes =
            SumOver(DOMAIN duplicate_groups,
                    [i \in DOMAIN duplicate_groups |->
                        fs[duplicate_groups[i][1]].data.len
                            * (Len(duplicate_groups[i]) - 1)])

\* The same when the directory is not modified during the run.
ReclaimableExactUnmodified == ~modified => ReclaimableExact

====
